---- MODULE Spec2Model ----
(***************************************************************************)
(* Model of src/js/src/MapEvents.js: the exported catalog object           *)
(* mapEventTypes and the static factory MapEvents.downloadError, used by   *)
(* a bounded number of importing callers.                                  *)
(*                                                                         *)
(* JavaScript values are tagged records, objects live in a heap keyed by   *)
(* reference, and a call of downloadError is one atomic step (a            *)
(* synchronous function body runs to completion).                          *)
(***************************************************************************)
EXTENDS Integers, Sequences, FiniteSets, TLC

\* ---------------------------------------------------------------- bounds
NumCallers == 2
MaxCalls == 2

Callers == 1..NumCallers

\* ---------------------------------------------------------------- values
Str(s) == [tag |-> "string", str |-> s]
Undefined == [tag |-> "undefined", str |-> ""]
Null == [tag |-> "null", str |-> ""]
Fn(n) == [tag |-> "function", str |-> n]

\* Marks that no caller has read the catalog yet (not a JavaScript value).
NoRead == [tag |-> "noread", str |-> ""]

\* Argument lists a caller may pass: nothing, a string, undefined, null.
ArgLists == { <<>>, <<Str("")>>, <<Str("x")>>, <<Undefined>>, <<Null>> }

\* Values a caller assigns when it writes to an object it holds.
WriteValues == { Str("changed") }

\* ---------------------------------------------------------------- module
\* References of the two objects the module creates when it is evaluated.
mapEventTypesRef == 0
MapEventsRef == 1

\* The catalog literal with another identifier as its value.
mapEventTypes_Renamed == [MAP_DOWNLOAD_ERROR |-> Str("MAP_DOWNLOAD_FAILED")]

\* export const mapEventTypes = { MAP_DOWNLOAD_ERROR: 'MAP_DOWNLOAD_ERROR' }
mapEventTypes == [MAP_DOWNLOAD_ERROR |-> Str("MAP_DOWNLOAD_ERROR")]

\* export class MapEvents { static downloadError(...) {...} }
MapEvents == [downloadError |-> Fn("downloadError")]

\* Binding of the formal parameter: a missing argument reads as undefined.
Param(args, i) == IF Len(args) >= i THEN args[i] ELSE Undefined

\* A body that substitutes a default for a falsy message.
downloadError_Defaulting(args) ==
    LET errorMessage == Param(args, 1)
    IN  IF errorMessage \in {Str(""), Undefined, Null}
        THEN [errorMessage |-> Str("x")]
        ELSE [errorMessage |-> errorMessage]

\* A body that leaves the field out when no message was given.
downloadError_Omitting(args) ==
    LET errorMessage == Param(args, 1)
    IN  IF errorMessage = Undefined
        THEN [k \in {} |-> Undefined]
        ELSE [errorMessage |-> errorMessage]

\* static downloadError(errorMessage) { return { errorMessage } }
\* The object literal the body evaluates: one own property, named after the
\* parameter, holding the parameter's value.
downloadError(args) ==
    LET errorMessage == Param(args, 1)
    IN  [errorMessage |-> errorMessage]

\* ---------------------------------------------------------------- state
VARIABLES
    heap,       \* reference -> object (property name -> value)
    pc,         \* per caller: "idle", "invoked" or "threw"
    arg,        \* per caller: the argument list of its latest call
    calls,      \* the calls that completed: caller, args, reference, result
    firstRead,  \* value of the first read of mapEventTypes.MAP_DOWNLOAD_ERROR
    lastRead    \* value of the latest such read

vars == <<heap, pc, arg, calls, firstRead, lastRead>>

\* Property lookup: an absent property reads as undefined.
Get(obj, k) == IF k \in DOMAIN obj THEN obj[k] ELSE Undefined

\* Property assignment on an ordinary (non-frozen) object.
Put(obj, k, v) == [x \in (DOMAIN obj) \cup {k} |-> IF x = k THEN v ELSE obj[x]]

\* The reference a new object gets: one no live object has.
NewRef == Cardinality(DOMAIN heap)

\* References of the payloads caller c was handed.
Held(c) == { calls[i].ref : i \in { j \in 1..Len(calls) : calls[j].caller = c } }

Init ==
    /\ heap = (mapEventTypesRef :> mapEventTypes) @@ (MapEventsRef :> MapEvents)
    /\ pc = [c \in Callers |-> "idle"]
    /\ arg = [c \in Callers |-> <<>>]
    /\ calls = <<>>
    /\ firstRead = NoRead
    /\ lastRead = NoRead

\* A caller evaluates its argument list and is about to enter downloadError.
Invoke(c, args) ==
    /\ pc[c] = "idle"
    /\ Len(calls) + Cardinality({d \in Callers : pc[d] = "invoked"}) < MaxCalls
    /\ pc' = [pc EXCEPT ![c] = "invoked"]
    /\ arg' = [arg EXCEPT ![c] = args]
    /\ UNCHANGED <<heap, calls, firstRead, lastRead>>

\* The entry the call of caller c adds to the record of completed calls.
CallRecord(c, ref, obj) ==
    [caller |-> c, args |-> arg[c], ref |-> ref, ret |-> obj,
     overlap |-> {d \in Callers \ {c} : pc[d] = "invoked"}]

\* A body that rejects a message that is not a string.
DownloadError_Validating(c) ==
    /\ pc[c] = "invoked"
    /\ IF Param(arg[c], 1).tag # "string"
       THEN /\ pc' = [pc EXCEPT ![c] = "threw"]
            /\ UNCHANGED <<heap, calls>>
       ELSE /\ heap' = heap @@ (NewRef :> downloadError(arg[c]))
            /\ calls' = Append(calls, CallRecord(c, NewRef, downloadError(arg[c])))
            /\ pc' = [pc EXCEPT ![c] = "idle"]
    /\ UNCHANGED <<arg, firstRead, lastRead>>

\* A body that fills in and returns one module-level payload object.
DownloadError_Shared(c) ==
    /\ pc[c] = "invoked"
    /\ LET obj == downloadError(arg[c])
           ref == IF calls = <<>> THEN NewRef ELSE calls[1].ref
       IN  /\ heap' = IF ref \in DOMAIN heap
                      THEN [heap EXCEPT ![ref] = obj]
                      ELSE heap @@ (ref :> obj)
           /\ calls' = Append(calls, CallRecord(c, ref, obj))
    /\ pc' = [pc EXCEPT ![c] = "idle"]
    /\ UNCHANGED <<arg, firstRead, lastRead>>

\* A body that also notes the message on the catalog object.
DownloadError_Recording(c) ==
    /\ pc[c] = "invoked"
    /\ LET obj == downloadError(arg[c])
           ref == NewRef
       IN  /\ heap' = [heap EXCEPT ![mapEventTypesRef] =
                          Put(heap[mapEventTypesRef], "lastError", Param(arg[c], 1))]
                      @@ (ref :> obj)
           /\ calls' = Append(calls, CallRecord(c, ref, obj))
    /\ pc' = [pc EXCEPT ![c] = "idle"]
    /\ UNCHANGED <<arg, firstRead, lastRead>>

\* A body that blanks a message it has already reported.
DownloadError_Dedup(c) ==
    /\ pc[c] = "invoked"
    /\ LET seen == \E i \in 1..Len(calls) : calls[i].args = arg[c]
           obj == IF seen THEN [errorMessage |-> Undefined] ELSE downloadError(arg[c])
           ref == NewRef
       IN  /\ heap' = heap @@ (ref :> obj)
           /\ calls' = Append(calls, CallRecord(c, ref, obj))
    /\ pc' = [pc EXCEPT ![c] = "idle"]
    /\ UNCHANGED <<arg, firstRead, lastRead>>

\* A body that takes the message from a slot all pending callers share.
DownloadError_SharedSlot(c) ==
    /\ pc[c] = "invoked"
    /\ \E d \in Callers :
         /\ pc[d] = "invoked"
         /\ heap' = heap @@ (NewRef :> downloadError(arg[d]))
         /\ calls' = Append(calls, CallRecord(c, NewRef, downloadError(arg[d])))
    /\ pc' = [pc EXCEPT ![c] = "idle"]
    /\ UNCHANGED <<arg, firstRead, lastRead>>

\* MapEvents.downloadError(...args) runs for caller c: the static method is
\* looked up on the class, its body builds the object literal, the new
\* object is allocated and its reference handed to the caller.
DownloadError(c) ==
    /\ pc[c] = "invoked"
    /\ Get(heap[MapEventsRef], "downloadError") = Fn("downloadError")
    /\ LET obj == downloadError(arg[c])
           ref == NewRef
       IN  /\ heap' = heap @@ (ref :> obj)
           /\ calls' = Append(calls, CallRecord(c, ref, obj))
    /\ pc' = [pc EXCEPT ![c] = "idle"]
    /\ UNCHANGED <<arg, firstRead, lastRead>>

\* A caller reads mapEventTypes.MAP_DOWNLOAD_ERROR.
ReadCatalog(c) ==
    /\ LET v == Get(heap[mapEventTypesRef], "MAP_DOWNLOAD_ERROR")
       IN  /\ lastRead' = v
           /\ firstRead' = IF firstRead = NoRead THEN v ELSE firstRead
    /\ UNCHANGED <<heap, pc, arg, calls>>

\* A caller assigns to the field of a payload it was handed.
MutatePayload(c, ref, v) ==
    /\ ref \in Held(c)
    /\ heap' = [heap EXCEPT ![ref] = Put(heap[ref], "errorMessage", v)]
    /\ UNCHANGED <<pc, arg, calls, firstRead, lastRead>>

\* A caller assigns to a property of the imported catalog object.
WriteCatalog(c, v) ==
    /\ heap' = [heap EXCEPT ![mapEventTypesRef] =
                   Put(heap[mapEventTypesRef], "MAP_DOWNLOAD_ERROR", v)]
    /\ UNCHANGED <<pc, arg, calls, firstRead, lastRead>>

Next ==
    \/ \E c \in Callers, args \in ArgLists : Invoke(c, args)
    \/ \E c \in Callers : DownloadError(c)
    \/ \E c \in Callers : ReadCatalog(c)
    \/ \E c \in Callers : \E ref \in Held(c), v \in WriteValues : MutatePayload(c, ref, v)
    \/ \E c \in Callers, v \in WriteValues : WriteCatalog(c, v)

Spec == Init /\ [][Next]_vars

\* Callers that only use what the module exports and never assign to it.
NextNoWrite ==
    \/ \E c \in Callers, args \in ArgLists : Invoke(c, args)
    \/ \E c \in Callers : DownloadError(c)
    \/ \E c \in Callers : ReadCatalog(c)
    \/ \E c \in Callers : \E ref \in Held(c), v \in WriteValues : MutatePayload(c, ref, v)

SpecNoWrite == Init /\ [][NextNoWrite]_vars

\* ---------------------------------------------------------------- claims
CallIds == 1..Len(calls)

IsString(v) == v.tag = "string"

\* C1: for every string s, downloadError(s) returns a record whose fields
\* are exactly {errorMessage} and whose errorMessage is s, unchanged.
C1_PayloadCarriesString ==
    \A i \in CallIds :
        (Len(calls[i].args) = 1 /\ IsString(calls[i].args[1]))
            => /\ DOMAIN calls[i].ret = {"errorMessage"}
               /\ calls[i].ret.errorMessage = calls[i].args[1]

C1_Witness ==
    \E i, j \in CallIds :
        /\ calls[i].args = <<Str("x")>> /\ calls[i].ret.errorMessage = Str("x")
        /\ calls[j].args = <<Str("")>> /\ calls[j].ret.errorMessage = Str("")

\* C2: the catalog has the key MAP_DOWNLOAD_ERROR and its value is the
\* string "MAP_DOWNLOAD_ERROR", the name of the key itself; that is what
\* every caller that imports the module reads.
C2_CatalogValueIsKeyName ==
    /\ "MAP_DOWNLOAD_ERROR" \in DOMAIN heap[mapEventTypesRef]
    /\ \A k \in DOMAIN heap[mapEventTypesRef] : heap[mapEventTypesRef][k] = Str(k)
    /\ lastRead \in {NoRead, Str("MAP_DOWNLOAD_ERROR")}

C2_Witness ==
    /\ lastRead = Str("MAP_DOWNLOAD_ERROR")
    /\ Len(calls) > 0

\* C3: the catalog is never mutated: whatever callers do with the exported
\* object (reads, calls, assignments), a read of MAP_DOWNLOAD_ERROR yields
\* what the first read yielded, and MapEvents.downloadError stays the same
\* operation.
C3_CatalogNeverMutated ==
    /\ lastRead = firstRead
    /\ Get(heap[MapEventsRef], "downloadError") = Fn("downloadError")

\* C4: every call allocates a fresh record: the references returned by two
\* calls differ, also for equal arguments, none is the catalog or the class,
\* and an assignment to one payload changes no other object.
C4_DistinctRefs ==
    /\ \A i, j \in CallIds : i # j => calls[i].ref # calls[j].ref
    /\ \A i \in CallIds : calls[i].ref \notin {mapEventTypesRef, MapEventsRef}

C4_StepFresh ==
    /\ Len(calls') > Len(calls) =>
          /\ calls'[Len(calls')].ref \notin DOMAIN heap
          /\ calls'[Len(calls')].ref \in DOMAIN heap'
    /\ (calls' = calls /\ heap' # heap) =>
          Cardinality({r \in DOMAIN heap : heap'[r] # heap[r]}) = 1

C4_FreshPayload == []C4_DistinctRefs /\ [][C4_StepFresh]_vars

C4_Witness ==
    \E i, j \in CallIds :
        /\ i # j
        /\ calls[i].args = calls[j].args
        /\ calls[i].ref # calls[j].ref
        /\ heap[calls[i].ref] # calls[i].ret
        /\ heap[calls[j].ref] = calls[j].ret

\* C5 as stated: in every payload downloadError builds, the errorMessage
\* field is never null and never absent.
C5_NeverNullOrAbsent ==
    \A i \in CallIds :
        /\ "errorMessage" \in DOMAIN calls[i].ret
        /\ calls[i].ret.errorMessage # Null

\* C5 amended: the errorMessage field is never absent; it is null only when
\* the caller passed null, and undefined only when the caller passed
\* undefined or no argument.
C5_PresentAndNullOnlyIfPassed ==
    \A i \in CallIds :
        /\ "errorMessage" \in DOMAIN calls[i].ret
        /\ calls[i].ret.errorMessage = Null => calls[i].args = <<Null>>
        /\ calls[i].ret.errorMessage = Undefined
              => calls[i].args \in {<<>>, <<Undefined>>}

C5_Witness ==
    \E i, j \in CallIds :
        /\ calls[i].args = <<Null>> /\ calls[i].ret.errorMessage = Null
        /\ calls[j].args = <<>> /\ "errorMessage" \in DOMAIN calls[j].ret

\* C6: downloadError never fails: no call ends in an exception, a call that
\* was entered can always return, also for the empty string and for an
\* undefined or omitted argument, and the payload carries what was passed.
C6_NeverFails ==
    /\ \A c \in Callers : pc[c] # "threw"
    /\ \A c \in Callers : pc[c] = "invoked" => ENABLED DownloadError(c)
    /\ \A i \in CallIds :
          Get(calls[i].ret, "errorMessage") = Param(calls[i].args, 1)

C6_Witness ==
    \E i, j \in CallIds :
        /\ calls[i].args \in {<<>>, <<Undefined>>}
        /\ calls[i].ret.errorMessage = Undefined
        /\ calls[j].args = <<Str("")>>
        /\ calls[j].ret.errorMessage = Str("")

\* C7: a call of downloadError has no side effects: the catalog, the class,
\* the arguments and every earlier payload are as before; the only change
\* is the one new record.
C7_CallFrame ==
    Len(calls') > Len(calls) =>
        /\ \A r \in DOMAIN heap : r \in DOMAIN heap' /\ heap'[r] = heap[r]
        /\ Cardinality(DOMAIN heap' \ DOMAIN heap) = 1
        /\ arg' = arg
        /\ firstRead' = firstRead /\ lastRead' = lastRead
        /\ SubSeq(calls', 1, Len(calls)) = calls

C7_NoSideEffects == [][C7_CallFrame]_vars

C7_Witness ==
    /\ Len(calls) >= 2
    /\ heap[calls[1].ref] # calls[1].ret
    /\ heap[calls[2].ref] = calls[2].ret
    /\ heap[mapEventTypesRef] # mapEventTypes

\* C8: downloadError is deterministic: two calls with equal arguments
\* return payloads equal in content, whatever happened between them.
C8_Deterministic ==
    \A i, j \in CallIds :
        calls[i].args = calls[j].args => calls[i].ret = calls[j].ret

C8_Witness ==
    /\ Len(calls) >= 2
    /\ calls[1].args = calls[2].args
    /\ calls[1].caller # calls[2].caller
    /\ heap[calls[1].ref] # calls[1].ret
    /\ heap[mapEventTypesRef] # mapEventTypes
    /\ lastRead = Str("changed")

\* C9: callers may call downloadError and read the catalog concurrently:
\* in every interleaving a returning caller gets the payload of its own
\* argument, in an object no other caller holds, and the callers still
\* pending are not affected.
C9_ReturnStep ==
    \A c \in Callers :
        (pc[c] = "invoked" /\ pc'[c] # "invoked") =>
            /\ Len(calls') = Len(calls) + 1
            /\ LET e == calls'[Len(calls')]
               IN  /\ e.caller = c
                   /\ e.ret = [errorMessage |-> Param(arg[c], 1)]
                   /\ heap'[e.ref] = e.ret
                   /\ \A d \in Callers \ {c} : e.ref \notin Held(d)
            /\ \A d \in Callers \ {c} : pc'[d] = pc[d] /\ arg'[d] = arg[d]

C9_ConcurrentCallers == [][C9_ReturnStep]_vars

C9_Witness ==
    \E i, j \in CallIds :
        /\ calls[i].caller # calls[j].caller
        /\ calls[j].caller \in calls[i].overlap
        /\ calls[i].args # calls[j].args
        /\ calls[i].ret.errorMessage = Param(calls[i].args, 1)
        /\ calls[j].ret.errorMessage = Param(calls[j].args, 1)

====
